---------------------------- MODULE Spec2Model ----------------------------
(***************************************************************************)
(* A model of orange3-single-cell's data loading and normalisation code:   *)
(*                                                                         *)
(*   widgets/load_data.py      get_data_loader, Loader and its variants,   *)
(*                             Concatenate                                 *)
(*   preprocess/scnormalize.py ScNormalizeModel.fit / transform            *)
(*                                                                         *)
(* The module holds four state machines over disjoint groups of variables; *)
(* each specification runs one of them and keeps the others idle:          *)
(*                                                                         *)
(*   SpecDispatch   get_data_loader on bounded file names                  *)
(*   SpecConcat     Concatenate.concatenate, one loop iteration per step   *)
(*   SpecNorm       ScNormalizeModel: fit, then transform                  *)
(*   SpecLoader     construction, configuration, invocation and copy of    *)
(*                  loaders                                                *)
(***************************************************************************)
EXTENDS Integers, Sequences, FiniteSets, TLC

VARIABLES
    \* ---- get_data_loader
    file_name,        \* the argument: a sequence of name tokens
    loader_cls,       \* the class of the loader returned, "none" before the call
    \* ---- Concatenate.concatenate
    concat_type,      \* "INTERSECTION" or "UNION"
    data_collection,  \* the sequence of input tables
    concat_data,      \* the running result
    source_values,    \* source_var.values
    next_table,       \* index of the next element of data_collection[1:]
    concat_pc,        \* "idle", "loop", "done"
    \* ---- ScNormalizeModel
    X,                \* data.X, a matrix of counts
    Y,                \* the equalize_var column, <<>> when equalize_var is None
    storage,          \* "dense" or "sparse": how data.X is stored
    params,           \* normalize_cells, log_base, bin_thresh (<<>> for None,
                      \* else <<threshold>>)
    target_row_mean,  \* fitted: a rational
    size_factors,     \* fitted: a rational per library
    X_new,            \* the matrix of the table transform returns
    norm_pc,          \* "idle", "new", "fitted", "done", "raised"
    \* ---- Loader and its variants
    disk,             \* the file at the path "data", NoFile when none is
    heap,             \* loader objects by identity; 1 is the original
    cp,               \* the identity copy() returned, 0 before any copy
    raised,           \* the exception the last operation raised, "" if none
    out,              \* what the last invocation returned and read
    prev,             \* what the invocation before it returned and read
    streak,           \* invocations of one loader since its last change
    nchanges,         \* configuration assignments made so far
    ncalls            \* invocations and copies made so far

dispVars   == <<file_name, loader_cls>>
concatVars == <<concat_type, data_collection, concat_data, source_values,
                next_table, concat_pc>>
normVars   == <<X, Y, storage, params, target_row_mean, size_factors, X_new,
                norm_pc>>
loaderVars == <<disk, heap, cp, raised, out, prev, streak,
                nchanges, ncalls>>
vars       == <<dispVars, concatVars, normVars, loaderVars>>

-----------------------------------------------------------------------------
(* Generic helpers *)

Range(s) == {s[i] : i \in 1..Len(s)}

SeqsUpTo(S, n) == UNION {[1..k -> S] : k \in 0..n}

Min2(a, b) == IF a < b THEN a ELSE b

RECURSIVE SetToSortedSeq(_)
SetToSortedSeq(S) ==
    IF S = {} THEN <<>>
    ELSE LET m == CHOOSE x \in S : \A y \in S : x <= y
         IN  <<m>> \o SetToSortedSeq(S \ {m})

RECURSIVE SumSeq(_)
SumSeq(s) == IF s = <<>> THEN 0 ELSE Head(s) + SumSeq(Tail(s))

RECURSIVE Pow(_, _)
Pow(b, e) == IF e = 0 THEN 1 ELSE b * Pow(b, e - 1)

-----------------------------------------------------------------------------
(* Loader: the files on disk and the values of a loader's fields *)

\* Python's None in a field that otherwise holds a number.
None == -1

\* Largest text file: lines and fields per line.
MaxLines == 6
MaxFields == 5
\* Largest matrix a coordinate or pickle file declares.
MaxDim == 5
\* How many attribute assignments and how many method calls (invocations,
\* copies) a behaviour makes.
MaxChanges == 3
MaxCalls == 2
\* In how many assignments a copy is taken apart from its original.
MaxDivergence == 1

\* The file at path "data".  kind "text": nrows lines of ncols fields each;
\* labelled: the first line and the first field of every line are labels,
\* not numbers.  kind "mtx": a coordinate file declaring nrows x ncols and
\* nnz entries.  kind "pickle": a pickled table whose X is nrows x ncols.
\* nnz: the nonzero cells the sparsity probe counts.  sidecars: the
\* conventionally named annotation files lie beside it (genes.tsv and
\* barcodes.tsv for mtx, <basename>.meta for text), with one row per
\* gene, barcode or cell.
File(kind, nr, nc, labelled, sidecars) ==
    [kind |-> kind, nrows |-> nr, ncols |-> nc, labelled |-> labelled,
     nnz |-> 1, sidecars |-> sidecars, size |-> 112]

\* Nothing lies at the path.
NoFile == File("none", 0, 0, FALSE, FALSE)

TextFiles == {File("text", MaxLines, MaxFields, lab, sc) :
                lab \in BOOLEAN, sc \in BOOLEAN}
MtxFiles == {File("mtx", MaxDim, MaxDim + 1, FALSE, sc) : sc \in BOOLEAN}
              \cup {File("mtx", 0, MaxDim, FALSE, FALSE)}
PickleFiles == {File("pickle", MaxDim + 1, MaxDim, FALSE, FALSE),
                File("pickle", 3, MaxDim, FALSE, FALSE)}

Classes == {"Loader", "CsvLoader", "CountLoader", "MtxLoader", "PickleLoader"}
TextClasses == {"Loader", "CsvLoader", "CountLoader"}

\* The files a loader of class cls is pointed at; only CountLoader and
\* MtxLoader look for sidecars.
FilesFor(cls) ==
    {NoFile} \cup (IF cls = "MtxLoader" THEN MtxFiles
                   ELSE IF cls = "PickleLoader" THEN PickleFiles
                   ELSE IF cls = "CountLoader" THEN TextFiles
                   ELSE {f \in TextFiles : ~f.sidecars})

\* A mask: None, or a boolean array.
NoMask == [some |-> FALSE, bits |-> <<>>]
Mask(b) == [some |-> TRUE, bits |-> b]

\* Loader.__reset_error_messages
reset_error_messages ==
    [row_annot_mismatch |-> <<>>, col_annot_mismatch |-> <<>>,
     inadequate_headers |-> <<>>, reading_error |-> <<>>]

Truthy(v) == v = "True"

Exists(path, d) == path = "data" /\ d.kind # "none"

\* Loader._set_file_size
set_file_size(l, d) ==
    IF Exists(l._file_name, d) THEN [l EXCEPT !.file_size = d.size] ELSE l

\* Loader.__set_sparsity: the columns 1 .. n_cols-2 of the first rows after
\* the header line; genfromtxt returns a 1-d array for a single row or
\* column, whose shape[1] raises, and an empty sample divides by zero: all
\* swallowed by the caller.
set_sparsity(l, d) ==
    IF l.n_cols # None /\ l.n_rows # None
    THEN LET all_el == l.n_rows * (l.n_cols - 2)
         IN  IF l.n_rows >= 2 /\ l.n_cols - 2 >= 2
             THEN [l EXCEPT !.sparsity = <<all_el - Min2(d.nnz, all_el), all_el>>]
             ELSE l
    ELSE l

\* Loader._set_file_parameters: the first line gives n_cols, the lines after
\* it are counted into n_rows; next() on an empty file raises StopIteration,
\* which is swallowed with n_cols unset.
text_set_file_parameters(l, d) ==
    IF Exists(l._file_name, d) /\ d.kind = "text" /\ d.nrows >= 1
    THEN set_sparsity([l EXCEPT !.n_cols = d.ncols, !.n_rows = d.nrows - 1], d)
    ELSE l

\* MtxLoader._set_file_parameters: only OSError and ValueError are caught;
\* the division raises ZeroDivisionError when the file declares no cells,
\* after n_rows and n_cols were assigned.
mtx_set_file_parameters(l, d) ==
    IF Exists(l._file_name, d) /\ d.kind = "mtx"
    THEN LET all_el == d.nrows * d.ncols
             l1 == [l EXCEPT !.n_rows = d.nrows, !.n_cols = d.ncols]
         IN  IF all_el = 0
             THEN [loader |-> l1, raised |-> "ZeroDivisionError"]
             ELSE [loader |-> [l1 EXCEPT !.sparsity =
                                   <<all_el - Min2(d.nnz, all_el), all_el>>],
                   raised |-> ""]
    ELSE [loader |-> l, raised |-> ""]

\* Loader.__init__ up to the probing calls: every attribute the constructor
\* sets, with the value Loader.__init__ gives it.
\* A missing sparsity is <<>>, a missing column-name list is <<>>.
loader_defaults(cls, path) ==
    [cls |-> cls, _file_name |-> path,
     file_size |-> None, n_rows |-> None, n_cols |-> None, sparsity |-> <<>>,
     _leading_cols |-> 0, _leading_rows |-> 0,
     _use_rows_mask |-> NoMask, _use_cols_mask |-> NoMask,
     _row_annot_header |-> 0, _row_annot_columns |-> <<>>,
     _col_annot_header |-> 0, _col_annot_columns |-> <<>>,
     FIXED_FORMAT |-> TRUE, ENABLE_ANNOTATIONS |-> TRUE,
     header_rows_count |-> None, header_cols_count |-> None,
     transposed |-> "None",
     sample_rows_enabled |-> "None", sample_cols_enabled |-> "None",
     sample_rows_p |-> None, sample_cols_p |-> None,
     row_annotations_enabled |-> TRUE, row_annotation_file |-> None,
     col_annotations_enabled |-> TRUE, col_annotation_file |-> None,
     errors |-> reset_error_messages]

\* An annotation file is named in the model by the number of rows it holds.
\* MtxLoader._set_annotation_files and _set_enable_annotations: genes.tsv
\* has a row per matrix row, barcodes.tsv a row per matrix column.
mtx_set_annotation_files(l, d) ==
    IF Exists(l._file_name, d) /\ d.sidecars
    THEN [l EXCEPT !.col_annotation_file = d.nrows,
                   !.row_annotation_file = d.ncols,
                   !.ENABLE_ANNOTATIONS = FALSE]
    ELSE l

\* CountLoader._set_annotation_files: <basename>.meta has a header line and
\* a row per cell, the cells being the file's columns after the label column.
count_set_annotation_files(l, d) ==
    IF Exists(l._file_name, d) /\ d.sidecars
    THEN [l EXCEPT !.row_annotation_file = d.ncols - 1]
    ELSE l

\* MtxLoader.__init__ after super().__init__
MtxLoader_init(l, d) ==
    mtx_set_annotation_files(
        [l EXCEPT !.header_rows_count = 0, !.header_cols_count = 0,
                  !.FIXED_FORMAT = FALSE, !.transposed = "True",
                  !._row_annot_header = None,
                  !._row_annot_columns = <<"Barcodes">>,
                  !._col_annot_header = None,
                  !._col_annot_columns = <<"Id", "Gene">>], d)

\* CountLoader.__init__ after super().__init__
CountLoader_init(l, d) ==
    count_set_annotation_files(
        [l EXCEPT !.header_rows_count = 1, !.header_cols_count = 1,
                  !.FIXED_FORMAT = FALSE, !.transposed = "True"], d)

\* PickleLoader.__init__ after super().__init__
PickleLoader_init(l) ==
    [l EXCEPT !.header_rows_count = 0, !.header_cols_count = 0,
              !.FIXED_FORMAT = FALSE, !.ENABLE_ANNOTATIONS = FALSE,
              !.transposed = "False",
              !.row_annotations_enabled = FALSE,
              !.col_annotations_enabled = FALSE]

\* cls(file_name): the loader constructed, or the exception that ended the
\* constructor.  PickleLoader._set_file_parameters does nothing.
Construct(cls, path, d) ==
    LET sized == set_file_size(loader_defaults(cls, path), d)
        probed == IF cls = "MtxLoader" THEN mtx_set_file_parameters(sized, d)
                  ELSE IF cls = "PickleLoader"
                       THEN [loader |-> sized, raised |-> ""]
                       ELSE [loader |-> text_set_file_parameters(sized, d),
                             raised |-> ""]
        l == probed.loader
    IN  IF probed.raised # "" THEN probed
        ELSE [loader |-> CASE cls = "MtxLoader" -> MtxLoader_init(l, d)
                           [] cls = "CountLoader" -> CountLoader_init(l, d)
                           [] cls = "PickleLoader" -> PickleLoader_init(l)
                           [] OTHER -> l,
              raised |-> ""]

-----------------------------------------------------------------------------
(* Loader: the random streams *)

\* The first values np.random.RandomState(0x667).uniform(0, 100) returns, in
\* hundredths (MT19937 seeded by init_genrand(0x667), 53-bit doubles).
DrawStream ==
    <<4285, 1302, 4277, 831, 7600, 5064, 9043, 4709, 1725, 7401, 1537, 6676,
      6375, 9268, 7732, 5685, 9597, 9313, 4021, 2993, 6319, 7076, 3606, 298>>

\* The k-th call of rstate.uniform(0, 100) in one invocation.
Uniform(k) == DrawStream[k]

\* The first 32-bit outputs of Python's random after random.seed(0), each
\* cut to its top 8 bits (getrandbits(k) is the top k bits of one output).
PyBits ==
    <<216, 98, 194, 227, 107, 10, 66, 247, 130, 124, 103, 235, 200, 212, 77,
      247, 122, 91, 149, 228, 232, 55, 129, 35, 72, 35, 193, 24, 158, 204,
      64, 252>>

RECURSIVE BitLength(_)
BitLength(n) == IF n = 0 THEN 0 ELSE 1 + BitLength(n \div 2)

\* random._randbelow(n) with `pos` outputs consumed: draw bit_length(n) bits
\* until the value is below n.
RECURSIVE randbelow(_, _)
randbelow(n, pos) ==
    LET r == PyBits[pos + 1] \div Pow(2, 8 - BitLength(n))
    IN  IF r >= n THEN randbelow(n, pos + 1)
        ELSE [value |-> r, pos |-> pos + 1]

\* random.sample(population, k) for a population of n <= 21 elements 0..n-1:
\* pick from a shrinking pool, moving the pool's last element into the hole.
RECURSIVE sample_loop(_, _, _, _, _)
sample_loop(pool, n, i, k, pos) ==
    IF i >= k THEN [result |-> <<>>, pos |-> pos]
    ELSE LET j == randbelow(n - i, pos)
             pool1 == [pool EXCEPT ![j.value + 1] = pool[n - i]]
             rest == sample_loop(pool1, n, i + 1, k, j.pos)
         IN  [result |-> <<pool[j.value + 1]>> \o rest.result,
              pos |-> rest.pos]

random_sample(n, k, pos) == sample_loop([i \in 1..n |-> i - 1], n, 0, k, pos)

-----------------------------------------------------------------------------
(* Loader: sampling tests, header depth, reading parameters *)

\* Loader.__skip_row / __skip_col: None, or the test
\* `i > 3 and rstate.uniform(0, 100) > p`.
skip_test(enabled, p) ==
    IF Truthy(enabled) /\ p < 100 THEN [some |-> TRUE, p |-> p]
    ELSE [some |-> FALSE, p |-> 100]

\* `p < 100` with p None raises TypeError.
skip_test_raises(enabled, p) == Truthy(enabled) /\ p = None

\* The test applied to i, i+1, .., n-1 in order, `pos` draws already made:
\* the results and the draws made afterwards.  A draw is made only for i > 3.
RECURSIVE skip_flags(_, _, _, _)
skip_flags(p, i, n, pos) ==
    IF i >= n THEN [flags |-> <<>>, pos |-> pos]
    ELSE IF i > 3
         THEN LET rest == skip_flags(p, i + 1, n, pos + 1)
              IN  [flags |-> <<Uniform(pos + 1) > p * 100>> \o rest.flags,
                   pos |-> rest.pos]
         ELSE LET rest == skip_flags(p, i + 1, n, pos)
              IN  [flags |-> <<FALSE>> \o rest.flags, pos |-> rest.pos]

\* The leading_rows and leading_cols setters: MtxLoader's store 0.
set_leading_rows(l, v) ==
    [l EXCEPT !._leading_rows = IF l.cls = "MtxLoader" THEN 0 ELSE v]

set_leading_cols(l, v) ==
    [l EXCEPT !._leading_cols = IF l.cls = "MtxLoader" THEN 0 ELSE v]

\* Loader.__header_rows / __header_cols: len(header_indices) for a count:
\* 0 for 0, 1 for 1, len(range(count)) otherwise.  range(None) raises.
header_indices(count) == IF count < 0 THEN 0 ELSE count

header_raises(count) == count = None

\* np.flatnonzero of a boolean array: the 0-based positions of its True.
RECURSIVE flatnonzero_from(_, _)
flatnonzero_from(bits, i) ==
    IF i > Len(bits) THEN <<>>
    ELSE (IF bits[i] THEN <<i - 1>> ELSE <<>>) \o flatnonzero_from(bits, i + 1)

flatnonzero(bits) == flatnonzero_from(bits, 1)

\* a[k:]
SliceFrom(a, k) == IF k >= Len(a) THEN <<>> ELSE SubSeq(a, k + 1, Len(a))

Not(bits) == [i \in 1..Len(bits) |-> ~bits[i]]

\* What pd.read_csv(file, nrows=1).shape[1] gives in
\* __update_reading_parameters: the fields of a text line; a coordinate
\* file's lines hold no tab, so one column.
header_line_fields(d) == IF d.kind = "text" THEN d.ncols ELSE 1

\* A faulty variant of __update_reading_parameters that leaves the masks of
\* the previous invocation in place where it builds no new one.
update_reading_parameters_stale(l, skip_col, skip_row, n_header_cols, d) ==
    LET f == skip_flags(skip_col.p, 0, header_line_fields(d), 0)
        l2 == IF skip_col.some
              THEN [l EXCEPT !._use_cols_mask =
                      Mask([i \in 1..Len(f.flags) |->
                              ~f.flags[i] \/ (i - 1) < n_header_cols])]
              ELSE l
        l3 == IF skip_row.some
              THEN [l2 EXCEPT !._use_rows_mask = Mask(<<>>)]
              ELSE l2
    IN  [loader |-> l3, pos |-> IF skip_col.some THEN f.pos ELSE 0]

\* Loader.__update_reading_parameters, for an existing file: the loader with
\* its masks reset, the columns mask built when skip_col is a test (header
\* columns forced in), the rows mask an empty list when skip_row is a test;
\* and the draws made.
update_reading_parameters(l, skip_col, skip_row, n_header_cols, d) ==
    LET l1 == [l EXCEPT !._use_rows_mask = NoMask, !._use_cols_mask = NoMask]
        f == skip_flags(skip_col.p, 0, header_line_fields(d), 0)
        l2 == IF skip_col.some
              THEN [l1 EXCEPT !._use_cols_mask =
                      Mask([i \in 1..Len(f.flags) |->
                              ~f.flags[i] \/ (i - 1) < n_header_cols])]
              ELSE l1
        l3 == IF skip_row.some
              THEN [l2 EXCEPT !._use_rows_mask = Mask(<<>>)]
              ELSE l2
    IN  [loader |-> l3, pos |-> IF skip_col.some THEN f.pos ELSE 0]

-----------------------------------------------------------------------------
(* Loader: the raw read *)

\* What _load_data hands back: exc is the exception it raised ("" if none);
\* x_rows and x_cols name the rows and columns of X by their 0-based
\* position in the file (lines and fields of a text file, rows and columns
\* of the matrix as read); attrs: the reader produced attribute names;
\* strings: X holds a cell that is no number; skipped and dropped: the file
\* lines and fields sampling left out.
Loaded(l, exc, x_rows, x_cols, attrs, strings, skipped, dropped) ==
    [loader |-> l, exc |-> exc, x_rows |-> x_rows, x_cols |-> x_cols,
     attrs |-> attrs, strings |-> strings, skipped |-> skipped,
     dropped |-> dropped]

Indices(n) == [i \in 1..n |-> i - 1]

TrueAt(bits) == {i - 1 : i \in {j \in 1..Len(bits) : bits[j]}}

\* Loader._load_data: pd.read_csv calls skip_row once per line of the file,
\* in order; the lines it lets through give first the header rows, then the
\* data; usecols gives first the index columns, then the data.  read_csv
\* raises when the file is missing or the lines run out before the header
\* is complete.  The wrapper of __update_reading_parameters appends every
\* result of the test to _use_rows_mask.
text_load_data(l, skip_row, n_header_rows, n_header_cols, pos, d) ==
    IF ~Exists(l._file_name, d)
    THEN Loaded(l, "FileNotFoundError", <<>>, <<>>, FALSE, FALSE, {}, {})
    ELSE
    LET f == IF skip_row.some THEN skip_flags(skip_row.p, 0, d.nrows, pos)
             ELSE [flags |-> [i \in 1..d.nrows |-> FALSE], pos |-> pos]
        remaining == flatnonzero(Not(f.flags))
        usecols == IF l._use_cols_mask.some
                   THEN flatnonzero(l._use_cols_mask.bits)
                   ELSE Indices(d.ncols)
        dropped == IF l._use_cols_mask.some
                   THEN TrueAt(Not(l._use_cols_mask.bits)) ELSE {}
        l1 == IF skip_row.some
              THEN [l EXCEPT !._use_rows_mask = Mask(f.flags)] ELSE l
        lines == SliceFrom(remaining, n_header_rows)
        fields == SliceFrom(usecols, n_header_cols)
        strings == d.labelled /\ (n_header_rows = 0 \/ n_header_cols = 0)
    IN  IF Len(remaining) < n_header_rows \/ remaining = <<>>
           \/ Len(usecols) < n_header_cols
        THEN Loaded(l1, "ParserError", <<>>, <<>>, FALSE, FALSE,
                    TrueAt(f.flags), dropped)
        ELSE IF Truthy(l.transposed)
        THEN Loaded(set_leading_cols(
                      set_leading_rows(
                        [l1 EXCEPT !._use_rows_mask = l1._use_cols_mask,
                                   !._use_cols_mask = l1._use_rows_mask],
                        l1._leading_cols), l1._leading_rows),
                    "", fields, lines, TRUE, strings, TrueAt(f.flags), dropped)
        ELSE Loaded(l1, "", lines, fields, TRUE, strings, TrueAt(f.flags),
                    dropped)

\* MtxLoader._load_data: X is transposed first, then its rows are tested,
\* then its columns; the masks say which were kept.
mtx_load_data(l, skip_row, skip_col, pos, d) ==
    IF ~Exists(l._file_name, d)
    THEN Loaded(l, "FileNotFoundError", <<>>, <<>>, FALSE, FALSE, {}, {})
    ELSE
    LET tr == Truthy(l.transposed)
        shape0 == IF tr THEN d.ncols ELSE d.nrows
        shape1 == IF tr THEN d.nrows ELSE d.ncols
        fr == IF skip_row.some THEN skip_flags(skip_row.p, 0, shape0, pos)
              ELSE [flags |-> [i \in 1..shape0 |-> FALSE], pos |-> pos]
        fc == IF skip_col.some THEN skip_flags(skip_col.p, 0, shape1, fr.pos)
              ELSE [flags |-> [i \in 1..shape1 |-> FALSE], pos |-> fr.pos]
        l1 == IF skip_row.some
              THEN [l EXCEPT !._use_rows_mask = Mask(Not(fr.flags))] ELSE l
        l2 == IF skip_col.some
              THEN [l1 EXCEPT !._use_cols_mask = Mask(Not(fc.flags))] ELSE l1
    IN  Loaded(l2, "", flatnonzero(Not(fr.flags)), flatnonzero(Not(fc.flags)),
               FALSE, FALSE, TrueAt(fr.flags), TrueAt(fc.flags))

-----------------------------------------------------------------------------
(* Loader: the annotation merge and the table *)

NoAnnot == [some |-> FALSE, idx |-> <<>>]

\* A faulty variant of __update_metas that raises on a mismatch instead of
\* recording it.
update_metas_strict(l, x_rows) ==
    LET n == l.row_annotation_file
        mask == l._use_rows_mask
        expected == IF mask.some THEN Len(mask.bits) - l._leading_rows
                    ELSE x_rows
        idx == IF mask.some
               THEN flatnonzero(SliceFrom(mask.bits, l._leading_rows))
               ELSE Indices(n)
    IN  IF n # expected \/ Len(idx) # x_rows
        THEN [loader |-> l, exc |-> "ValueError", annot |-> NoAnnot]
        ELSE [loader |-> l, exc |-> "", annot |-> [some |-> TRUE, idx |-> idx]]

\* Loader.__update_metas, with a row annotation file of n rows and X of
\* x_rows rows.  The rows selected are compared with the frame's index,
\* which raises ValueError when their numbers differ.
update_metas(l, x_rows) ==
    LET n == l.row_annotation_file
        mask == l._use_rows_mask
        expected == IF mask.some THEN Len(mask.bits) - l._leading_rows
                    ELSE x_rows
        idx == IF mask.some
               THEN flatnonzero(SliceFrom(mask.bits, l._leading_rows))
               ELSE Indices(n)
    IN  IF n # expected
        THEN [loader |-> [l EXCEPT !.errors.row_annot_mismatch =
                                      <<expected, n>>],
              exc |-> "", annot |-> NoAnnot]
        ELSE IF Len(idx) # x_rows
        THEN [loader |-> l, exc |-> "ValueError", annot |-> NoAnnot]
        ELSE [loader |-> l, exc |-> "", annot |-> [some |-> TRUE, idx |-> idx]]

\* Loader.__update_attributes, with a column annotation file of n rows and
\* X of x_cols columns; its assert raises AssertionError.
update_attributes(l, x_cols) ==
    LET n == l.col_annotation_file
        mask == l._use_cols_mask
        expected == IF mask.some THEN Len(mask.bits) - l._leading_cols
                    ELSE x_cols
        idx == IF mask.some
               THEN flatnonzero(SliceFrom(mask.bits, l._leading_cols))
               ELSE Indices(n)
    IN  IF n # expected
        THEN [loader |-> [l EXCEPT !.errors.col_annot_mismatch =
                                      <<expected, n>>],
              exc |-> "", annot |-> NoAnnot]
        ELSE IF Len(idx) # x_cols
        THEN [loader |-> l, exc |-> "AssertionError", annot |-> NoAnnot]
        ELSE [loader |-> l, exc |-> "", annot |-> [some |-> TRUE, idx |-> idx]]

\* The table an invocation returns: its rows and columns by file position,
\* whether they are the file's transposed, and the sidecar rows attached.
Table(x_rows, x_cols, tr, row_annot, col_annot) ==
    [rows |-> x_rows, cols |-> x_cols, transposed |-> tr,
     row_annot |-> row_annot, col_annot |-> col_annot]

NoTable == Table(<<>>, <<>>, FALSE, NoAnnot, NoAnnot)

\* What an invocation did: the loader afterwards; status "table" (a table
\* returned), "none" (None returned) or "raised" with the exception; the
\* file lines and fields sampling left out; the shape of X once it was read.
Called(l, status, exc, table, skipped, dropped) ==
    [loader |-> l, status |-> status, exc |-> exc, table |-> table,
     skipped |-> skipped, dropped |-> dropped, shape |-> <<0, 0>>]

\* Loader.__into_orange_table: Table.from_numpy raises ValueError when X
\* holds a cell that is no number.
into_orange_table(l, r, row_annot, col_annot) ==
    LET tr == Truthy(l.transposed)
        rows == IF tr THEN l._leading_cols ELSE l._leading_rows
        cols == IF tr THEN l._leading_rows ELSE l._leading_cols
    IN  IF r.strings
        THEN Called([l EXCEPT !.errors.inadequate_headers = <<rows, cols>>],
                    "none", "", NoTable, r.skipped, r.dropped)
        ELSE Called(l, "table", "",
                    Table(r.x_rows, r.x_cols, tr, row_annot, col_annot),
                    r.skipped, r.dropped)

-----------------------------------------------------------------------------
(* Loader: invocation *)

\* The part of Loader.__call__ after a successful _load_data.
merge_and_assemble(r) ==
    LET l == r.loader
        m == IF l.row_annotations_enabled /\ l.row_annotation_file # None
             THEN update_metas(l, Len(r.x_rows))
             ELSE [loader |-> l, exc |-> "", annot |-> NoAnnot]
        a == IF m.loader.col_annotations_enabled
                /\ m.loader.col_annotation_file # None
             THEN update_attributes(m.loader, Len(r.x_cols))
             ELSE [loader |-> m.loader, exc |-> "", annot |-> NoAnnot]
        c == IF m.exc # ""
             THEN Called(m.loader, "raised", m.exc, NoTable, r.skipped,
                         r.dropped)
             ELSE IF a.exc # ""
             THEN Called(a.loader, "raised", a.exc, NoTable, r.skipped,
                         r.dropped)
             ELSE into_orange_table(a.loader, r, m.annot, a.annot)
    IN  [c EXCEPT !.shape = <<Len(r.x_rows), Len(r.x_cols)>>]

\* Loader.__call__, which MtxLoader, CountLoader and CsvLoader inherit.
Loader_call(l, d) ==
    LET l0 == [l EXCEPT !.errors = reset_error_messages]
        tr == Truthy(l.transposed)
        by_rows == skip_test(l.sample_rows_enabled, l.sample_rows_p)
        by_cols == skip_test(l.sample_cols_enabled, l.sample_cols_p)
        skip_row == IF tr THEN by_cols ELSE by_rows
        skip_col == IF tr THEN by_rows ELSE by_cols
        n_header_rows == header_indices(l.header_rows_count)
        n_header_cols == header_indices(l.header_cols_count)
        l1 == set_leading_rows(l0, n_header_rows)
        l2 == set_leading_cols(l1, n_header_cols)
        u == update_reading_parameters(l2, skip_col, skip_row,
                                       n_header_cols, d)
        r == IF l.cls = "MtxLoader"
             THEN mtx_load_data(u.loader, skip_row, skip_col, u.pos, d)
             ELSE text_load_data(u.loader, skip_row, n_header_rows,
                                 n_header_cols, u.pos, d)
    IN  IF skip_test_raises(l.sample_rows_enabled, l.sample_rows_p)
           \/ skip_test_raises(l.sample_cols_enabled, l.sample_cols_p)
        THEN Called(l0, "raised", "TypeError", NoTable, {}, {})
        ELSE IF header_raises(l.header_rows_count)
        THEN Called(l0, "raised", "TypeError", NoTable, {}, {})
        ELSE IF header_raises(l.header_cols_count)
        THEN Called(l1, "raised", "TypeError", NoTable, {}, {})
        ELSE IF skip_col.some /\ ~Exists(l._file_name, d)
        THEN Called([l2 EXCEPT !._use_rows_mask = NoMask,
                               !._use_cols_mask = NoMask],
                    "raised", "FileNotFoundError", NoTable, {}, {})
        ELSE IF r.exc # ""
        THEN Called([r.loader EXCEPT !.errors.reading_error = <<r.exc>>],
                    "none", "", NoTable, r.skipped, r.dropped)
        ELSE merge_and_assemble(r)

\* PickleLoader.__attributes / __row_indices: all n, or a sample of
\* int(n * p / 100) of them when sampling is enabled, p < 100 and n > 3.
pickle_pick(enabled, p, n, pos) ==
    IF Truthy(enabled) /\ p < 100 /\ n > 3
    THEN random_sample(n, (n * p) \div 100, pos)
    ELSE [result |-> Indices(n), pos |-> pos]

\* PickleLoader.__call__ and _load_data: random.seed(0), the table read,
\* its attributes picked, then its rows.  Nothing is caught.
PickleLoader_call(l, d) ==
    LET l1 == [l EXCEPT !.n_rows = d.nrows, !.n_cols = d.ncols]
        attrs == pickle_pick(l.sample_cols_enabled, l.sample_cols_p,
                             d.ncols, 0)
        rows == pickle_pick(l.sample_rows_enabled, l.sample_rows_p,
                            d.nrows, attrs.pos)
    IN  IF ~Exists(l._file_name, d)
        THEN Called(l, "raised", "FileNotFoundError", NoTable, {}, {})
        ELSE IF skip_test_raises(l.sample_cols_enabled, l.sample_cols_p)
        THEN Called(l1, "raised", "TypeError", NoTable, {}, {})
        ELSE IF skip_test_raises(l.sample_rows_enabled, l.sample_rows_p)
        THEN Called(l1, "raised", "TypeError", NoTable, {}, {})
        ELSE [Called(l1, "table", "",
                     Table(rows.result, attrs.result, FALSE, NoAnnot, NoAnnot),
                     Range(Indices(d.nrows)) \ Range(rows.result),
                     Range(Indices(d.ncols)) \ Range(attrs.result))
                EXCEPT !.shape = <<Len(rows.result), Len(attrs.result)>>]

\* A faulty variant of an invocation that omits the reset of the error map:
\* every entry the invocation does not write keeps what it held before.
Call_without_reset(l, d) ==
    LET c == IF l.cls = "PickleLoader" THEN PickleLoader_call(l, d)
             ELSE Loader_call(l, d)
    IN  [c EXCEPT !.loader.errors =
            [k \in DOMAIN l.errors |->
                IF c.loader.errors[k] # <<>> THEN c.loader.errors[k]
                ELSE l.errors[k]]]

\* loader()
Call(l, d) ==
    IF l.cls = "PickleLoader" THEN PickleLoader_call(l, d)
    ELSE Loader_call(l, d)

\* A faulty variant of copy that returns the newly constructed object
\* without setting its attributes to the original's.
copy_fresh(l, d) == Construct(l.cls, l._file_name, d)

\* Loader.copy: a new object of the same class on the same path, then every
\* attribute of the new object set to the original's.  The constructor
\* probes the file again and may raise.
copy(l, d) ==
    LET c == Construct(l.cls, l._file_name, d)
    IN  IF c.raised # "" THEN c
        ELSE [loader |-> [key \in DOMAIN c.loader |-> l[key]], raised |-> ""]

-----------------------------------------------------------------------------
(* Loader: the state machine *)

\* The values a caller assigns to a loader's configuration attributes.
HeaderRowCounts == {0, 1, MaxLines - 1}
HeaderColCounts == {0, 1, 2}
SampleP == 30
SidecarRows == {MaxLines - 2, MaxLines - 1}

Settings ==
    ({"header_rows_count"} \X HeaderRowCounts)
    \cup ({"header_cols_count"} \X HeaderColCounts)
    \cup ({"transposed"} \X {"True", "False"})
    \cup ({"sample_rows", "sample_cols"} \X {SampleP})
    \cup ({"row_annotation_file", "col_annotation_file"} \X SidecarRows)

NoCall == [who |-> 0, status |-> "", exc |-> "", table |-> NoTable,
           skipped |-> {}, dropped |-> {}, shape |-> <<0, 0>>,
           before |-> <<>>, after |-> <<>>]

LoaderIdle ==
    /\ disk = NoFile
    /\ heap = <<>> /\ cp = 0 /\ raised = ""
    /\ out = NoCall /\ prev = NoCall /\ streak = 0
    /\ nchanges = 0 /\ ncalls = 0

\* The loaders a caller holds: the original and, once made, the copy.
Refs == IF heap = <<>> THEN {} ELSE {1} \cup ({cp} \ {0})

\* cls(path): the caller constructs the original.
NewLoader(cls) ==
    /\ heap = <<>> /\ raised = ""
    /\ disk \in FilesFor(cls)
    /\ LET c == Construct(cls, "data", disk)
       IN  /\ heap' = IF c.raised = "" THEN <<c.loader>> ELSE heap
           /\ raised' = c.raised
    /\ UNCHANGED <<disk, cp, out, prev, streak, nchanges, ncalls>>

\* loader.key = val; the sampling of an axis is switched on together with
\* its percentage: loader.sample_rows_enabled = True; loader.sample_rows_p = val
assign(l, key, val) ==
    IF key = "sample_rows"
    THEN [l EXCEPT !.sample_rows_enabled = "True", !.sample_rows_p = val]
    ELSE IF key = "sample_cols"
    THEN [l EXCEPT !.sample_cols_enabled = "True", !.sample_cols_p = val]
    ELSE [l EXCEPT ![key] = val]

\* The attributes a caller assigns.
GuiKeys == {"header_rows_count", "header_cols_count", "transposed",
            "sample_rows_enabled", "sample_cols_enabled",
            "sample_rows_p", "sample_cols_p",
            "row_annotation_file", "col_annotation_file"}

\* In how many assigned attributes the copy differs from the original.
Divergence ==
    IF cp = 0 THEN 0
    ELSE Cardinality({k \in GuiKeys : heap[1][k] # heap[cp][k]})

SetField(ref, key, val) ==
    /\ ref \in Refs
    /\ nchanges < MaxChanges
    /\ Divergence < MaxDivergence
    /\ assign(heap[ref], key, val) # heap[ref]
    /\ heap' = [heap EXCEPT ![ref] = assign(heap[ref], key, val)]
    /\ nchanges' = nchanges + 1
    /\ streak' = 0
    /\ raised' = ""
    /\ out' = NoCall /\ prev' = NoCall
    /\ UNCHANGED <<disk, cp, ncalls>>

\* loader()
Invoke(ref) ==
    /\ ref \in Refs
    /\ ncalls < MaxCalls
    /\ LET c == Call(heap[ref], disk)
       IN  /\ heap' = [heap EXCEPT ![ref] = c.loader]
           /\ out' = [who |-> ref, status |-> c.status, exc |-> c.exc,
                      table |-> c.table, skipped |-> c.skipped,
                      dropped |-> c.dropped, shape |-> c.shape,
                      before |-> <<heap[ref]>>, after |-> <<c.loader>>]
           /\ raised' = c.exc
    /\ prev' = out
    /\ streak' = IF streak > 0 /\ out.who = ref THEN streak + 1 ELSE 1
    /\ ncalls' = ncalls + 1
    /\ UNCHANGED <<disk, cp, nchanges>>

\* original.copy()
Copy ==
    /\ Len(heap) = 1 /\ cp = 0
    /\ ncalls < MaxCalls
    /\ LET c == copy(heap[1], disk)
       IN  /\ heap' = IF c.raised = "" THEN Append(heap, c.loader) ELSE heap
           /\ cp' = IF c.raised = "" THEN Len(heap) + 1 ELSE cp
           /\ raised' = c.raised
    /\ streak' = 0
    /\ ncalls' = ncalls + 1
    /\ UNCHANGED <<disk, out, prev, nchanges>>

-----------------------------------------------------------------------------
(* The idle values of the other machines' variables *)

DispIdle == file_name = <<>> /\ loader_cls = "none"

\* No table: what concat_data holds before concatenate starts.
NoData == [attributes |-> <<>>, metas |-> {}, rows |-> <<>>]

ConcatIdle ==
    /\ concat_type = "" /\ data_collection = <<>> /\ concat_data = NoData
    /\ source_values = <<>> /\ next_table = 0 /\ concat_pc = "idle"

\* SCNormalizer's defaults; no model is constructed yet.
NormIdle ==
    /\ X = <<>> /\ Y = <<>> /\ storage = ""
    /\ params = [normalize_cells |-> TRUE, log_base |-> 2, bin_thresh |-> <<>>]
    /\ target_row_mean = <<1, 1>> /\ size_factors = <<>>
    /\ X_new = <<>> /\ norm_pc = "idle"

-----------------------------------------------------------------------------
(* SpecLoader *)

LoaderInit ==
    /\ DispIdle /\ ConcatIdle /\ NormIdle
    /\ disk \in {NoFile} \cup TextFiles \cup MtxFiles \cup PickleFiles
    /\ heap = <<>> /\ cp = 0 /\ raised = ""
    /\ out = NoCall /\ prev = NoCall /\ streak = 0
    /\ nchanges = 0 /\ ncalls = 0

LoaderNext ==
    \/ \E cls \in Classes :
          NewLoader(cls) /\ UNCHANGED <<dispVars, concatVars, normVars>>
    \/ \E ref \in 1..2, s \in Settings :
          SetField(ref, s[1], s[2]) /\ UNCHANGED <<dispVars, concatVars, normVars>>
    \/ \E ref \in 1..2 :
          Invoke(ref) /\ UNCHANGED <<dispVars, concatVars, normVars>>
    \/ Copy /\ UNCHANGED <<dispVars, concatVars, normVars>>

SpecLoader == LoaderInit /\ [][LoaderNext]_vars

-----------------------------------------------------------------------------
(* Loader: claims *)

\* The loader of the last invocation as it was before and after it.
Before == out.before[1]
After == out.after[1]

CallMade == out.who # 0

\* C5: constructing a loader never raises because of a probing failure
\* (missing file, or a coordinate file declaring zero rows or columns):
\* construction completes.
C5_ConstructionNeverRaises == heap = <<>> => raised = ""

\* C4: for every loader variant, a failure while reading the raw data is
\* never raised to the caller: when the file cannot be read the invocation
\* returns no table and reading_error holds the captured failure.
C4_ReadingFailureCaptured ==
    (CallMade /\ ~Exists(Before._file_name, disk)
        /\ out.exc # "TypeError") =>
        /\ out.exc = ""
        /\ out.status = "none"
        /\ After.errors.reading_error # <<>>

\* C7: header rows and header columns are always retained: no file line
\* below the configured header-row count and no field below the configured
\* header-column count is left out by sampling.
C7_HeadersRetained ==
    (CallMade /\ Before.cls \in TextClasses) =>
        /\ \A i \in out.skipped : i >= Before.header_rows_count
        /\ \A j \in out.dropped : j >= Before.header_cols_count

\* C2: invoking the same loader twice on the same file with unchanged
\* configuration yields the same outcome, the same table and the same
\* left-out lines and fields, whatever the first invocation left in the
\* loader's masks and leading counts.
C2_InvocationIdempotent ==
    streak >= 2 =>
        /\ out.status = prev.status /\ out.exc = prev.exc
        /\ out.table = prev.table
        /\ out.skipped = prev.skipped /\ out.dropped = prev.dropped

\* Two invocations running, sampling left something out, and the first
\* left masks and swapped leading counts behind.
C2_Witness ==
    /\ streak = 2 /\ out.status = "table"
    /\ out.skipped \cup out.dropped # {}
    /\ Before._use_rows_mask.some \/ Before._use_cols_mask.some
    /\ Before._leading_rows # Before._leading_cols

\* The attributes copy() duplicates that a caller configures, with the
\* variant and the path.
ConfigKeys == GuiKeys \cup {"cls", "_file_name", "row_annotations_enabled",
                            "col_annotations_enabled"}

\* C3: copy() returns a new loader of the same variant on the same path whose
\* every configuration field equals the original's at the time of the copy
\* (and the original is left as it was); afterwards an assignment to one of
\* the two leaves the other unchanged.
C3_CopyIndependent ==
    [][ /\ (cp = 0 /\ cp' # 0) =>
              /\ cp' # 1
              /\ heap'[1] = heap[1]
              /\ \A k \in ConfigKeys : heap'[cp'][k] = heap[1][k]
        /\ (cp # 0 /\ ncalls' = ncalls /\ heap' # heap) =>
              (heap'[1] = heap[1] \/ heap'[cp] = heap[cp]) ]_vars

\* A copy of a configured loader whose sampling flag was then changed, the
\* original's flag staying unset.
C3_Witness ==
    /\ cp # 0
    /\ heap[1].header_rows_count # loader_defaults("", "").header_rows_count
    /\ heap[cp].sample_rows_enabled = "True"
    /\ heap[1].sample_rows_enabled = "None"

\* The annotation merges an invocation reached, the count each expected and
\* the rows its sidecar holds.
MergeReached ==
    /\ CallMade /\ Before.cls # "PickleLoader"
    /\ out.exc \notin {"TypeError", "FileNotFoundError"}
    /\ After.errors.reading_error = <<>>

RowExpected ==
    IF After._use_rows_mask.some
    THEN Len(After._use_rows_mask.bits) - After._leading_rows
    ELSE out.shape[1]

ColExpected ==
    IF After._use_cols_mask.some
    THEN Len(After._use_cols_mask.bits) - After._leading_cols
    ELSE out.shape[2]

RowMismatch ==
    /\ MergeReached
    /\ Before.row_annotations_enabled /\ Before.row_annotation_file # None
    /\ Before.row_annotation_file # RowExpected

ColMismatch ==
    /\ MergeReached /\ out.exc # "ValueError"
    /\ Before.col_annotations_enabled /\ Before.col_annotation_file # None
    /\ Before.col_annotation_file # ColExpected

-----------------------------------------------------------------------------
(* Dispatch: get_data_loader *)

\* A file name is a sequence of tokens: the extension separator, the path
\* separator, and words holding neither.
MaxNameLen == 5
Tokens == {".", "/", "a", "mtx", "count", "csv", "pkl", "pickle", "gz", "bz2"}
Names == SeqsUpTo(Tokens, MaxNameLen) \ {<<>>}

\* Orange.data.io.Compression.all
CompressionAll == {<<".", "gz">>, <<".", "bz2">>, <<".", "xz">>}

\* str.rfind: the last position of token t in s, 0 when there is none.
RFind(s, t) ==
    LET at == {i \in 1..Len(s) : s[i] = t}
    IN  IF at = {} THEN 0 ELSE CHOOSE i \in at : \A j \in at : j <= i

\* os.path.splitext: split at the last dot of the last path component,
\* unless only dots precede it there.
SplitExt(p) ==
    LET sepIndex == RFind(p, "/")
        dotIndex == RFind(p, ".")
    IN  IF dotIndex > sepIndex
           /\ \E k \in (sepIndex + 1)..(dotIndex - 1) : p[k] # "."
        THEN <<SubSeq(p, 1, dotIndex - 1), SubSeq(p, dotIndex, Len(p))>>
        ELSE <<p, <<>>>>

\* separator_from_filename
separator_from_filename(name) ==
    IF SplitExt(name)[2] = <<".", "csv">> THEN "," ELSE "\t"

\* get_data_loader up to the constructor call: the class it picks.
get_data_loader(name) ==
    LET first == SplitExt(name)
        ext == IF first[2] \in CompressionAll
               THEN SplitExt(first[1])[2] ELSE first[2]
    IN  IF ext = <<".", "mtx">> THEN "MtxLoader"
        ELSE IF ext = <<".", "count">> THEN "CountLoader"
        ELSE IF ext = <<".", "csv">> THEN "CsvLoader"
        ELSE IF ext \in {<<".", "pkl">>, <<".", "pickle">>} THEN "PickleLoader"
        ELSE "Loader"

\* What lies on disk under the name given.
DispatchDisks == {NoFile, File("mtx", 0, MaxDim, FALSE, FALSE),
                  File("text", MaxLines, MaxFields, TRUE, FALSE)}

\* get_data_loader(name): the class is picked and its constructor run on
\* the file of that name; the loader returned is kept in heap, an exception
\* of the constructor in raised.
GetDataLoader(name) ==
    /\ loader_cls = "none" /\ raised = ""
    /\ LET cls == get_data_loader(name)
           c == Construct(cls, "data", disk)
       IN  /\ file_name' = name
           /\ loader_cls' = cls
           /\ heap' = IF c.raised = "" THEN <<c.loader>> ELSE heap
           /\ raised' = c.raised
    /\ UNCHANGED <<disk, cp, out, prev, streak, nchanges, ncalls>>

DispatchInit ==
    /\ DispIdle /\ ConcatIdle /\ NormIdle
    /\ disk \in DispatchDisks
    /\ heap = <<>> /\ cp = 0 /\ raised = ""
    /\ out = NoCall /\ prev = NoCall /\ streak = 0
    /\ nchanges = 0 /\ ncalls = 0

DispatchNext ==
    /\ loader_cls = "none"
    /\ \E name \in Names :
          GetDataLoader(name) /\ UNCHANGED <<concatVars, normVars>>

SpecDispatch == DispatchInit /\ [][DispatchNext]_vars

\* The extension of a name, said without reference to the search: the
\* tokens from a dot on, where nothing after the dot is a dot or a path
\* separator and the path component holds a token other than a dot before it.
ExtensionOf(name) ==
    LET dots == {i \in 1..Len(name) :
                    /\ name[i] = "."
                    /\ \A j \in (i + 1)..Len(name) : name[j] \notin {".", "/"}
                    /\ \E j \in 1..(i - 1) :
                          /\ name[j] # "."
                          /\ \A k \in j..i : name[k] # "/"}
    IN  IF dots = {} THEN <<>>
        ELSE LET i == CHOOSE i \in dots : TRUE
             IN  SubSeq(name, i, Len(name))

Stem(name) == SubSeq(name, 1, Len(name) - Len(ExtensionOf(name)))

\* The extension that remains after stripping one recognized compression
\* suffix.
RemainingExtension(name) ==
    IF ExtensionOf(name) \in CompressionAll
    THEN ExtensionOf(Stem(name)) ELSE ExtensionOf(name)

ExpectedClass(name) ==
    CASE RemainingExtension(name) = <<".", "mtx">> -> "MtxLoader"
      [] RemainingExtension(name) = <<".", "count">> -> "CountLoader"
      [] RemainingExtension(name) = <<".", "csv">> -> "CsvLoader"
      [] RemainingExtension(name) \in {<<".", "pkl">>, <<".", "pickle">>}
            -> "PickleLoader"
      [] OTHER -> "Loader"

Dispatched == file_name # <<>>

\* The class picked is the one the remaining extension names.
DispatchByExtension ==
    Dispatched => loader_cls = ExpectedClass(file_name)

\* C1: get_data_loader is total and chooses by extension: for every file
\* name it returns a loader, of the class named by the extension that
\* remains after stripping one recognized compression suffix.
C1_TotalAndByExtension ==
    Dispatched =>
        /\ raised = "" /\ heap # <<>>
        /\ heap[1].cls = ExpectedClass(file_name)

-----------------------------------------------------------------------------
(* Concat: Concatenate.concatenate *)

\* The tables concatenated: at most MaxTables of them, each with attributes
\* among 1..MaxAttrs, the meta "m" or none, and MaxRows - 1 or MaxRows rows.
MaxTables == 3
MaxAttrs == 2
MaxRows == 2

\* A table: its domain's attributes in order, its metas, and per row the
\* value of the source column (None before the column exists).
DataTable(attrs, metas, n) ==
    [attributes |-> SetToSortedSeq(attrs), metas |-> metas,
     rows |-> [i \in 1..n |-> None]]

DataTables == {DataTable(attrs, metas, n) :
                 attrs \in SUBSET (1..MaxAttrs), metas \in SUBSET {"m"},
                 n \in {MaxRows - 1, MaxRows}}

\* data_collection: pairs of a table and its source name, the name being
\* the position written out.
SourceName(i) == i

Collections ==
    {c \in SeqsUpTo(DataTables, MaxTables) : c # <<>>}

ConcatTypes == {"INTERSECTION", "UNION"}

\* Concatenate.append_source_name: the meta "source" is added and set to
\* value 0 in every row.
append_source_name(data) ==
    [data EXCEPT !.metas = @ \cup {"source"},
                 !.rows = [i \in 1..Len(data.rows) |-> 0]]

\* A faulty variant that takes the union whatever the type.
merge_attributes_union(type, attrs1, attrs2) ==
    Range(attrs1) \cup Range(attrs2)

\* The attributes of a step of the loop: set(attrs1).intersection(attrs2)
\* or set(attrs1 + attrs2).
merge_attributes(type, attrs1, attrs2) ==
    IF type = "INTERSECTION" THEN Range(attrs1) \cap Range(attrs2)
    ELSE Range(attrs1) \cup Range(attrs2)

\* One pass of the loop body: both tables transformed to the merged domain,
\* the new table's rows given the index of its source name, then stacked.
concat_step(type, acc, data, n_values) ==
    [attributes |-> SetToSortedSeq(
                        merge_attributes(type, acc.attributes, data.attributes)),
     metas |-> acc.metas \cup data.metas,
     rows |-> acc.rows \o [i \in 1..Len(data.rows) |-> n_values - 1]]

\* concatenate(concat_type, data_collection) up to the loop.
ConcatStart(type, coll) ==
    /\ concat_pc = "idle"
    /\ concat_type' = type
    /\ data_collection' = coll
    /\ concat_data' = append_source_name(coll[1])
    /\ source_values' = <<SourceName(1)>>
    /\ next_table' = 2
    /\ concat_pc' = "loop"

\* One iteration of the loop.
ConcatStep ==
    /\ concat_pc = "loop" /\ next_table <= Len(data_collection)
    /\ source_values' = Append(source_values, SourceName(next_table))
    /\ concat_data' = concat_step(concat_type, concat_data,
                                  data_collection[next_table],
                                  Len(source_values) + 1)
    /\ next_table' = next_table + 1
    /\ UNCHANGED <<concat_type, data_collection, concat_pc>>

\* return concat_data
ConcatReturn ==
    /\ concat_pc = "loop" /\ next_table > Len(data_collection)
    /\ concat_pc' = "done"
    /\ UNCHANGED <<concat_type, data_collection, concat_data, source_values,
                   next_table>>

ConcatInit == DispIdle /\ ConcatIdle /\ NormIdle /\ LoaderIdle

ConcatNext ==
    \/ /\ concat_pc = "idle"
       /\ \E type \in ConcatTypes, coll \in Collections :
             ConcatStart(type, coll)
       /\ UNCHANGED <<dispVars, normVars, loaderVars>>
    \/ ConcatStep /\ UNCHANGED <<dispVars, normVars, loaderVars>>
    \/ ConcatReturn /\ UNCHANGED <<dispVars, normVars, loaderVars>>

SpecConcat == ConcatInit /\ [][ConcatNext]_vars

\* The attributes of the inputs, and their row counts.
InputAttrs(i) == Range(data_collection[i].attributes)

AllInputs == 1..Len(data_collection)

\* C10: concatenating a non-empty ordered collection yields a table whose
\* row count is the sum of the inputs' row counts and whose attribute count
\* is, under UNION, the number of distinct attributes across all inputs and,
\* under INTERSECTION, the number of attributes common to all inputs.
C10_ConcatenateCounts ==
    concat_pc = "done" =>
        /\ Len(concat_data.rows)
              = SumSeq([i \in AllInputs |-> Len(data_collection[i].rows)])
        /\ concat_type = "UNION" =>
              Len(concat_data.attributes)
                 = Cardinality(UNION {InputAttrs(i) : i \in AllInputs})
        /\ concat_type = "INTERSECTION" =>
              Len(concat_data.attributes)
                 = Cardinality({a \in 1..MaxAttrs :
                                   \A i \in AllInputs : a \in InputAttrs(i)})

\* Three tables concatenated by intersection, the common attributes fewer
\* than those of the first table and of all together.
C10_Witness ==
    /\ concat_pc = "done" /\ concat_type = "INTERSECTION"
    /\ Len(data_collection) = MaxTables
    /\ Len(concat_data.attributes) = 1
    /\ Len(data_collection[1].attributes) = 2
    /\ Len(data_collection[1].rows) # Len(data_collection[2].rows)

-----------------------------------------------------------------------------
(* Norm: ScNormalizeModel *)

\* The matrices normalised: NRows - 1 or NRows rows of NCols counts in
\* 0..MaxVal.
NRows == 3
NCols == 2
MaxVal == 2

\* SCNormalizer's default log_base.
LogBase == 2

Matrices ==
    UNION {[1..n -> [1..NCols -> 0..MaxVal]] : n \in {NRows - 1, NRows}}

\* The library of each row: <<>> when equalize_var is None, else libraries
\* 1 and 2, the first row in library 1.
Groupings(n) ==
    {<<>>} \cup {y \in [1..n -> {1, 2}] : y[1] = 1}

\* bin_thresh: <<>> for None, else the threshold in a 1-tuple.
Thresholds == {<<>>, <<0 - 1>>, <<0>>, <<1>>}

Params ==
    [normalize_cells : BOOLEAN, log_base : {None, LogBase},
     bin_thresh : Thresholds]

\* Floats as fractions in lowest terms; nan is <<0, 0>>.
RECURSIVE GCD(_, _)
GCD(a, b) == IF b = 0 THEN a ELSE GCD(b, a % b)

Rat(n, d) == LET g == GCD(n, d) IN <<n \div g, d \div g>>

NaN == <<0, 0>>
IsNaN(q) == q[2] = 0

RAdd(a, b) == Rat(a[1] * b[2] + b[1] * a[2], a[2] * b[2])
RMul(a, b) == Rat(a[1] * b[1], a[2] * b[2])
\* a / b where b is 0 only when a is: 0 / 0 is nan.
RDiv(a, b) == IF b[1] = 0 THEN NaN ELSE Rat(a[1] * b[2], a[2] * b[1])
RLess(a, b) == a[1] * b[2] < b[1] * a[2]

RECURSIVE RSum(_)
RSum(s) == IF s = <<>> THEN <<0, 1>> ELSE RAdd(Head(s), RSum(Tail(s)))

\* nansum(X, axis=1)
row_sums(Xm) == [i \in 1..Len(Xm) |-> SumSeq(Xm[i])]

\* nanmedian of a non-empty sequence of integers: the middle one, or the
\* mean of the middle two.
nanmedian(s) ==
    LET sorted == SortSeq(s, LAMBDA a, b : a < b)
        n == Len(s)
    IN  IF n % 2 = 1 THEN <<sorted[(n + 1) \div 2], 1>>
        ELSE Rat(sorted[n \div 2] + sorted[n \div 2 + 1], 2)

\* X[rows, :] for the rows of one library
rows_of(Yv, lib) == {i \in 1..Len(Yv) : Yv[i] = lib}

lib_sizes(Xm, Yv) ==
    [lib \in Range(Yv) |->
        nanmedian([k \in 1..Cardinality(rows_of(Yv, lib)) |->
                      row_sums(Xm)[SetToSortedSeq(rows_of(Yv, lib))[k]]])]

\* min(lib_sizes.values())
min_size(sizes) ==
    CHOOSE q \in Range(sizes) : \A r \in Range(sizes) : ~RLess(r, q)

\* ScNormalizeModel.fit: the target row mean and the size factors.
fit(Xm, Yv) ==
    IF Yv # <<>>
    THEN LET sizes == lib_sizes(Xm, Yv)
             target == min_size(sizes)
         IN  [target_row_mean |-> target,
              size_factors |-> [lib \in DOMAIN sizes |->
                                   RDiv(target, sizes[lib])]]
    ELSE [target_row_mean |-> nanmedian(row_sums(Xm)), size_factors |-> <<>>]


\* A cell of Xeq: the fraction arg, or log(arg) / log(log_base) when log.
Num(q) == [arg |-> q, log |-> FALSE]
Zero == Num(<<0, 1>>)
One == Num(<<1, 1>>)

\* rs = Xeq.sum(axis=1); rs[rs == 0] = 1.0
row_scale(Xm) ==
    [i \in 1..Len(Xm) |-> IF SumSeq(Xm[i]) = 0 THEN 1 ELSE SumSeq(Xm[i])]

\* vals: size_factors.get(lib, nan) for the library of each row
lib_vals(sf, Yv) ==
    [i \in 1..Len(Yv) |-> IF Yv[i] \in DOMAIN sf THEN sf[Yv[i]] ELSE NaN]

\* The factors of a dense X: rs is an array of shape (n,), and so is
\* factors; the rows whose library has a size factor take it.
dense_factors(M, Xm, sf, Yv) ==
    LET rs == row_scale(Xm)
        base == [i \in 1..Len(Xm) |-> RDiv(M, <<rs[i], 1>>)]
        vals == lib_vals(sf, Yv)
    IN  [raised |-> "",
         diag |-> IF Yv = <<>> THEN base
                  ELSE [i \in 1..Len(Xm) |->
                           IF IsNaN(vals[i]) THEN base[i] ELSE vals[i]]]

\* The factors of a sparse X: rs is a matrix of shape (n, 1), so rsm / rs
\* is n x n with factors[i][j] = rsm[j] / rs[i].  factors[inxs] selects k
\* rows, k x n, and takes vals[inxs] of shape (k,): each row becomes vals
\* when k = n, the one row is filled with its value when k = 1, and the
\* assignment raises ValueError otherwise.  The diagonal is the first n
\* cells of factors.ravel(): row 0.
sparse_factors(M, Xm, sf, Yv) ==
    LET n == Len(Xm)
        rs == row_scale(Xm)
        F == [i \in 1..n |-> [j \in 1..n |-> RDiv(M, <<rs[i], 1>>)]]
        vals == lib_vals(sf, Yv)
        inxs == {i \in 1..Len(Yv) : ~IsNaN(vals[i])}
        k == Cardinality(inxs)
        G == IF Yv = <<>> THEN F
             ELSE IF k = n THEN [i \in 1..n |-> [j \in 1..n |-> vals[j]]]
             ELSE IF k = 1
             THEN [i \in 1..n |-> IF i \in inxs
                                  THEN [j \in 1..n |-> vals[i]] ELSE F[i]]
             ELSE F
    IN  [raised |-> IF Yv # <<>> /\ k \notin {1, n} THEN "ValueError" ELSE "",
         diag |-> G[1]]

\* Xd.dot(Xeq): row i times the i-th cell of the diagonal.
scale_rows(diag, Xm) ==
    [i \in 1..Len(Xm) |->
        [j \in 1..Len(Xm[i]) |-> Num(RMul(diag[i], <<Xm[i][j], 1>>))]]

unscaled(Xm) ==
    [i \in 1..Len(Xm) |-> [j \in 1..Len(Xm[i]) |-> Num(<<Xm[i][j], 1>>)]]

\* log(1 + x) / log(log_base); a sparse matrix keeps its implicit zeros,
\* which is what log1p gives them.
log_transform(Xeq) ==
    [i \in 1..Len(Xeq) |->
        [j \in 1..Len(Xeq[i]) |->
            [arg |-> RAdd(<<1, 1>>, Xeq[i][j].arg), log |-> TRUE]]]

\* A cell is not 0.
NonZero(e) == IF e.log THEN e.arg # <<1, 1>> ELSE e.arg[1] # 0

\* cell > t, for log cells by comparing arg with log_base ** t.
Exceeds(e, t, base) ==
    IF ~e.log THEN e.arg[1] > t * e.arg[2]
    ELSE IF t >= 0 THEN e.arg[1] > Pow(base, t) * e.arg[2]
    ELSE e.arg[1] * Pow(base, 0 - t) > e.arg[2]

\* The cells a sparse matrix stores.
Stored(Xeq) ==
    {<<i, j>> \in (1..Len(Xeq)) \X (1..NCols) : NonZero(Xeq[i][j])}

\* Xeq > bin_thresh on a dense array: every cell.
dense_binarize(Xeq, t, base) ==
    [i \in 1..Len(Xeq) |->
        [j \in 1..Len(Xeq[i]) |->
            IF Exceeds(Xeq[i][j], t, base) THEN One ELSE Zero]]

\* Xeq.data = (Xeq.data > bin_thresh) and eliminate_zeros on a sparse
\* matrix: the stored cells only.
sparse_binarize(Xeq, t, base) ==
    [i \in 1..Len(Xeq) |->
        [j \in 1..Len(Xeq[i]) |->
            IF <<i, j>> \in Stored(Xeq) /\ Exceeds(Xeq[i][j], t, base)
            THEN One ELSE Zero]]

\* ScNormalizeModel.transform on the data the model was fitted to.
transform(p, M, sf, Xm, Yv, st) ==
    LET f == IF st = "sparse" THEN sparse_factors(M, Xm, sf, Yv)
             ELSE dense_factors(M, Xm, sf, Yv)
        normalized == IF p.normalize_cells THEN scale_rows(f.diag, Xm)
                      ELSE unscaled(Xm)
        logged == IF p.log_base # None THEN log_transform(normalized)
                  ELSE normalized
        binned == IF p.bin_thresh = <<>> THEN logged
                  ELSE IF st = "sparse"
                  THEN sparse_binarize(logged, p.bin_thresh[1], p.log_base)
                  ELSE dense_binarize(logged, p.bin_thresh[1], p.log_base)
    IN  IF p.normalize_cells /\ f.raised # ""
        THEN [raised |-> f.raised, X_new |-> <<>>]
        ELSE [raised |-> "", X_new |-> binned]

\* SCNormalizer.__call__: the model constructed with the parameters,
\* target_row_mean 1 and no size factors.
NormNew(Xm, Yv, st, p) ==
    /\ norm_pc = "idle"
    /\ X' = Xm /\ Y' = Yv /\ storage' = st /\ params' = p
    /\ target_row_mean' = <<1, 1>> /\ size_factors' = <<>>
    /\ X_new' = <<>>
    /\ norm_pc' = "new"

\* proj.fit(data.X, Y)
NormFit ==
    /\ norm_pc = "new"
    /\ target_row_mean' = fit(X, Y).target_row_mean
    /\ size_factors' = fit(X, Y).size_factors
    /\ norm_pc' = "fitted"
    /\ UNCHANGED <<X, Y, storage, params, X_new>>

\* proj.transform(data)
NormTransform ==
    /\ norm_pc = "fitted"
    /\ LET r == transform(params, target_row_mean, size_factors, X, Y, storage)
       IN  /\ X_new' = r.X_new
           /\ norm_pc' = IF r.raised = "" THEN "done" ELSE "raised"
    /\ UNCHANGED <<X, Y, storage, params, target_row_mean, size_factors>>

NormInit == DispIdle /\ ConcatIdle /\ NormIdle /\ LoaderIdle

NormNext ==
    \/ /\ norm_pc = "idle"
       /\ \E Xm \in Matrices, st \in {"dense", "sparse"}, p \in Params :
             \E Yv \in Groupings(Len(Xm)) : NormNew(Xm, Yv, st, p)
       /\ UNCHANGED <<dispVars, concatVars, loaderVars>>
    \/ NormFit /\ UNCHANGED <<dispVars, concatVars, loaderVars>>
    \/ NormTransform /\ UNCHANGED <<dispVars, concatVars, loaderVars>>

SpecNorm == NormInit /\ [][NormNext]_vars


\* The sum of a row of X_new, its cells being plain fractions.
NewRowSum(i) == RSum([j \in 1..NCols |-> X_new[i][j].arg])

\* Fitted with no grouping and transformed with cell normalisation only.
NormalizedOnly ==
    /\ norm_pc = "done" /\ Y = <<>>
    /\ params.normalize_cells
    /\ params.log_base = None /\ params.bin_thresh = <<>>

\* C8: after fit with no grouping on a matrix whose median row sum is M,
\* transform with cell normalisation and no log or binarisation gives every
\* row of nonzero original sum the new sum M and leaves every row of
\* original sum 0 unchanged.
C8_RowSumsEqualMedian ==
    NormalizedOnly =>
        \A i \in 1..Len(X) :
            IF row_sums(X)[i] # 0
            THEN NewRowSum(i) = nanmedian(row_sums(X))
            ELSE X_new[i] = unscaled(X)[i]

\* The same for a dense matrix alone.
DenseRowSumsEqualMedian ==
    (NormalizedOnly /\ storage = "dense") =>
        \A i \in 1..Len(X) :
            IF row_sums(X)[i] # 0
            THEN NewRowSum(i) = nanmedian(row_sums(X))
            ELSE X_new[i] = unscaled(X)[i]

\* The cells before binarisation: what transform gives without a threshold.
BeforeBinarize ==
    transform([params EXCEPT !.bin_thresh = <<>>], target_row_mean,
              size_factors, X, Y, storage).X_new

\* C9: with a threshold T configured, every cell of the output is 0 or 1,
\* and 1 exactly when the value after the normalisation and log steps
\* exceeds T; for sparse input the stored cells never grow in number.
C9_BinarizedByThreshold ==
    (norm_pc = "done" /\ params.bin_thresh # <<>>) =>
        /\ \A i \in 1..Len(X), j \in 1..NCols :
              /\ X_new[i][j] \in {Zero, One}
              /\ X_new[i][j] = One <=>
                    Exceeds(BeforeBinarize[i][j], params.bin_thresh[1],
                            params.log_base)
        /\ storage = "sparse" =>
              Cardinality(Stored(X_new)) <= Cardinality(Stored(unscaled(X)))

\* The same where no threshold below zero meets a sparse matrix.
BinarizedByThresholdFromZero ==
    (norm_pc = "done" /\ params.bin_thresh # <<>>
        /\ (storage = "dense" \/ params.bin_thresh[1] >= 0)) =>
        /\ \A i \in 1..Len(X), j \in 1..NCols :
              /\ X_new[i][j] \in {Zero, One}
              /\ X_new[i][j] = One <=>
                    Exceeds(BeforeBinarize[i][j], params.bin_thresh[1],
                            params.log_base)
        /\ storage = "sparse" =>
              Cardinality(Stored(X_new)) <= Cardinality(Stored(unscaled(X)))

-----------------------------------------------------------------------------
(* Loader: claims about the error map, the masks and the sampling *)

\* C11: every invocation starts from a freshly reset error map: the map
\* after an invocation is the one the same invocation leaves on a loader
\* whose map was empty, and every entry in it was recorded by this
\* invocation (a mismatch by a mismatching sidecar, inadequate_headers and
\* reading_error by an invocation that returned no table).
C11_ErrorMapFresh ==
    CallMade =>
        /\ After.errors
              = Call([Before EXCEPT !.errors = reset_error_messages],
                     disk).loader.errors
        /\ After.errors.row_annot_mismatch # <<>> => RowMismatch
        /\ After.errors.col_annot_mismatch # <<>> => ColMismatch
        /\ After.errors.inadequate_headers # <<>> =>
              (out.status = "none" /\ out.exc = "")
        /\ After.errors.reading_error # <<>> =>
              (out.status = "none" /\ out.exc = "")

\* An invocation on a loader whose map held an error of an earlier
\* invocation, and which itself recorded none.
C11_Witness ==
    /\ CallMade
    /\ Before.errors # reset_error_messages
    /\ After.errors = reset_error_messages
    /\ out.status = "table"


\* The number of True entries of a boolean array.
CountTrue(bits) == Cardinality({i \in 1..Len(bits) : bits[i]})

\* C12: whenever a row mask was recorded and the raw read succeeded, the
\* mask marks the retained rows: its True entries past the leading offset
\* are as many as the rows of the read matrix, and a row sidecar that is
\* attached contributes exactly the rows at the retained rows' positions
\* past the leading offset.  For text loaders and the coordinate loader.
C12_RowMaskMarksRetained ==
    (MergeReached /\ After._use_rows_mask.some) =>
        /\ CountTrue(SliceFrom(After._use_rows_mask.bits, After._leading_rows))
              = out.shape[1]
        /\ out.table.row_annot.some =>
              out.table.row_annot.idx
                 = [i \in 1..Len(out.table.rows) |->
                        out.table.rows[i] - After._leading_rows]

\* The same for the coordinate loader alone, whose mask records the rows
\* kept.
MtxRowMaskMarksRetained ==
    (MergeReached /\ After._use_rows_mask.some /\ Before.cls = "MtxLoader") =>
        /\ CountTrue(After._use_rows_mask.bits) = out.shape[1]
        /\ out.table.row_annot.some =>
              out.table.row_annot.idx = out.table.rows

\* A text loader sampling rows, not transposed, with a row dropped.
TextRowsSampled ==
    /\ MergeReached /\ After._use_rows_mask.some
    /\ Before.cls \in TextClasses /\ ~Truthy(Before.transposed)
    /\ out.skipped # {}


\* The configurations that differ from l at most in the sampling of columns
\* (of rows): switched off, or switched on with the percentage.
ColSamplingVariants(l) ==
    {[l EXCEPT !.sample_cols_enabled = "False"],
     assign(l, "sample_cols", SampleP)}

RowSamplingVariants(l) ==
    {[l EXCEPT !.sample_rows_enabled = "False"],
     assign(l, "sample_rows", SampleP)}

\* C13: sampling is independent per axis: for the same file and the same
\* row-sampling configuration, an invocation that returns a table returns
\* the same rows whether columns are sampled or not; and the same columns
\* whether rows are sampled or not.
C13_AxesIndependent ==
    (CallMade /\ out.status = "table") =>
        /\ \A v \in ColSamplingVariants(Before) :
              LET c == Call(v, disk)
              IN  c.status = "table" => c.table.rows = out.table.rows
        /\ \A v \in RowSamplingVariants(Before) :
              LET c == Call(v, disk)
              IN  c.status = "table" => c.table.cols = out.table.cols


\* The drop test as the claim C14 has it, applied to i, i+1, .., n-1 in
\* order: an index below the header count h is exempt, every other index
\* takes a draw and is dropped when the draw exceeds p.
RECURSIVE drop_past_headers(_, _, _, _, _)
drop_past_headers(p, h, i, n, pos) ==
    IF i >= n THEN <<>>
    ELSE IF i >= h
         THEN <<Uniform(pos + 1) > p * 100>>
                 \o drop_past_headers(p, h, i + 1, n, pos + 1)
         ELSE <<FALSE>> \o drop_past_headers(p, h, i + 1, n, pos)

\* An invocation that sampled the rows of the file, and only them, and
\* returned a table.
RowsAloneSampled ==
    /\ CallMade /\ out.status = "table"
    /\ Before.cls # "PickleLoader" /\ ~Truthy(Before.transposed)
    /\ Truthy(Before.sample_rows_enabled) /\ Before.sample_rows_p < 100
    /\ ~Truthy(Before.sample_cols_enabled)

\* C14: with a percentage below 100, every row index past the configured
\* number of header rows is subject to the drop test and only header
\* indices are exempt: the rows left out are those past the header count
\* whose draw exceeds the percentage.
C14_EveryDataIndexTested ==
    RowsAloneSampled =>
        out.skipped
          = TrueAt(drop_past_headers(
                     Before.sample_rows_p,
                     IF Before.cls = "MtxLoader" THEN 0
                     ELSE Before.header_rows_count,
                     0, disk.nrows, 0))

\* What the code does instead: whatever the header count, no index up to 3
\* is ever left out.
FirstFourNeverDropped ==
    (CallMade /\ Before.cls # "PickleLoader") =>
        /\ \A i \in out.skipped : i > 3
        /\ \A j \in out.dropped : j > 3

-----------------------------------------------------------------------------
(* Normalization: claims about the grouped fit and the two storage paths *)

\* Fitted with a grouping vector.
FittedWithGroups == norm_pc \in {"fitted", "done", "raised"} /\ Y # <<>>

\* C15: after fit with a grouping vector, target_row_mean is the smallest
\* of the groups' median row sums, and for every group label present
\* size_factors[group] is target_row_mean divided by that group's median:
\* a number that gives target_row_mean when multiplied by the median, 1 for
\* a group of the smallest median, and never above 1.
C15_GroupSizeFactors ==
    FittedWithGroups =>
        LET med == lib_sizes(X, Y)
        IN  /\ \E g \in Range(Y) : target_row_mean = med[g]
            /\ \A g \in Range(Y) : ~RLess(med[g], target_row_mean)
            /\ DOMAIN size_factors = Range(Y)
            /\ \A g \in Range(Y) :
                  /\ ~IsNaN(size_factors[g])
                  /\ RMul(size_factors[g], med[g]) = target_row_mean
                  /\ ~RLess(<<1, 1>>, size_factors[g])
                  /\ med[g] = target_row_mean => size_factors[g] = <<1, 1>>

\* The same where no group's median row sum is 0.
GroupSizeFactorsNonZeroMedian ==
    (FittedWithGroups /\ target_row_mean # <<0, 1>>) =>
        LET med == lib_sizes(X, Y)
        IN  /\ \E g \in Range(Y) : target_row_mean = med[g]
            /\ \A g \in Range(Y) : ~RLess(med[g], target_row_mean)
            /\ DOMAIN size_factors = Range(Y)
            /\ \A g \in Range(Y) :
                  /\ ~IsNaN(size_factors[g])
                  /\ RMul(size_factors[g], med[g]) = target_row_mean
                  /\ ~RLess(<<1, 1>>, size_factors[g])
                  /\ med[g] = target_row_mean => size_factors[g] = <<1, 1>>

-----------------------------------------------------------------------------
(* Loader: the assertion of the column annotation merge *)

\* The column sidecar was read and passed the expected-count check.
ColSidecarAccepted ==
    /\ MergeReached /\ out.exc # "ValueError"
    /\ Before.col_annotations_enabled /\ Before.col_annotation_file # None
    /\ Before.col_annotation_file = ColExpected

\* The rows of the column sidecar left after the restriction to the mask's
\* True positions past the leading offset.
ColSidecarSelected ==
    IF After._use_cols_mask.some
    THEN CountTrue(SliceFrom(After._use_cols_mask.bits, After._leading_cols))
    ELSE Before.col_annotation_file

\* C16: the assertion in the column annotation merge never fails: whenever
\* the column sidecar passes the expected-count check, the sidecar
\* restricted to the column mask has exactly as many rows as the read
\* matrix has columns, and no AssertionError is raised.
C16_AssertionNeverFails ==
    ColSidecarAccepted =>
        /\ ColSidecarSelected = out.shape[2]
        /\ out.exc # "AssertionError"

\* The same without transposition, where the column mask records the
\* fields kept.
AssertionHoldsUntransposed ==
    (ColSidecarAccepted /\ ~Truthy(Before.transposed)) =>
        /\ ColSidecarSelected = out.shape[2]
        /\ out.exc # "AssertionError"

-----------------------------------------------------------------------------
(* Normalization: the sparse and the dense path *)

\* What transform gives for the same fitted model and the same matrix held
\* in the other storage.
OtherStorage ==
    transform(params, target_row_mean, size_factors, X, Y,
              IF storage = "sparse" THEN "dense" ELSE "sparse")

\* C17: the sparse and the dense path of transform agree: for every fitted
\* model and every configuration, thresholds below zero included, the same
\* matrix gives element-wise the same output in either storage.
C17_SparseDenseAgree ==
    norm_pc \in {"done", "raised"} =>
        /\ norm_pc = "done"
        /\ OtherStorage.raised = ""
        /\ OtherStorage.X_new = X_new

\* The same where the two paths do agree: without cell normalisation and
\* with no threshold below zero.
AgreeUnnormalizedFromZero ==
    (/\ norm_pc \in {"done", "raised"}
     /\ ~params.normalize_cells
     /\ (params.bin_thresh = <<>> \/ params.bin_thresh[1] >= 0)) =>
        /\ norm_pc = "done"
        /\ OtherStorage.raised = ""
        /\ OtherStorage.X_new = X_new

=============================================================================
